---- MODULE Spec2Model ----
(***************************************************************************)
(* String distance metrics of the `distances` crate: the Levenshtein      *)
(* (Wagner-Fischer, single rolling row) and Hamming distances of           *)
(* src/src/strings/mod.rs.                                                 *)
(*                                                                         *)
(* A &str is modelled as what it is: a sequence of bytes holding valid     *)
(* UTF-8.  `chars` decodes it into Unicode scalar values, so the length in *)
(* characters and the length in bytes differ for multi-byte characters.    *)
(* The generic output type U: UInt is modelled by its width in bits.       *)
(***************************************************************************)
EXTENDS Integers, Sequences, FiniteSets, TLC

VARIABLES
    a, b, c,      \* the input strings (&str as UTF-8 bytes); c is a third string
    W,            \* the output width in bits of the caller-chosen type U
    out,          \* the finished call of the caller: function name and outcome
    stack,        \* call stack of levenshtein: one frame [a, b] per invocation
    pc,           \* position inside the running levenshtein invocation
    cur,          \* the DP row `cur` (cell k of the code is cur[k + 1])
    pre,          \* the diagonal predecessor `pre`
    i, j,         \* the loop counters of the two enumerate() loops
    touched,      \* indices of `cur` read or written by the latest step
    result        \* the value (or panic) handed back by the latest return

vars == <<a, b, c, W, out, stack, pc, cur, pre, i, j, touched, result>>

(***************************************************************************)
(* Bounds of the model.                                                    *)
(***************************************************************************)
\* longest input, in characters, drawn by Init
MaxLen == 3
\* frames the call stack can hold before the process aborts
MaxDepth == 3

\* the characters inputs are made of: 'a' (1 byte in UTF-8), U+00E9 (2 bytes)
Alphabet == {97, 233}
\* output widths: two artificially tiny ones and u8
Widths == {1, 2, 8}

(***************************************************************************)
(* Arithmetic helpers.                                                     *)
(***************************************************************************)
min(x, y) == IF x <= y THEN x ELSE y

\* usize::from(bool)
usize_from(t) == IF t THEN 1 ELSE 0

\* U::MAX for a width of w bits
MaxOf(w) == 2 ^ w - 1

(***************************************************************************)
(* UTF-8: how a string of characters is laid out as a &str, and            *)
(* str::chars, which decodes it again.                                     *)
(***************************************************************************)
utf8(ch) ==
    IF ch < 128 THEN <<ch>>
    ELSE IF ch < 2048 THEN <<192 + (ch \div 64), 128 + (ch % 64)>>
    ELSE IF ch < 65536
         THEN <<224 + (ch \div 4096), 128 + ((ch \div 64) % 64), 128 + (ch % 64)>>
    ELSE <<240 + (ch \div 262144), 128 + ((ch \div 4096) % 64),
           128 + ((ch \div 64) % 64), 128 + (ch % 64)>>

RECURSIVE str(_)
str(cs) == IF cs = <<>> THEN <<>> ELSE utf8(Head(cs)) \o str(Tail(cs))

RECURSIVE chars(_)
chars(s) ==
    IF s = <<>> THEN <<>>
    ELSE IF s[1] < 128 THEN <<s[1]>> \o chars(SubSeq(s, 2, Len(s)))
    ELSE IF s[1] < 224
         THEN <<(s[1] % 32) * 64 + (s[2] % 64)>> \o chars(SubSeq(s, 3, Len(s)))
    ELSE IF s[1] < 240
         THEN <<(s[1] % 16) * 4096 + (s[2] % 64) * 64 + (s[3] % 64)>>
              \o chars(SubSeq(s, 4, Len(s)))
    ELSE <<(s[1] % 8) * 262144 + (s[2] % 64) * 4096 + (s[3] % 64) * 64 + (s[4] % 64)>>
         \o chars(SubSeq(s, 5, Len(s)))

\* faulty variant: the length in bytes, s.len()
countBytes(s) == Len(s)

\* s.chars().count()
count(s) == Len(chars(s))

(***************************************************************************)
(* U::from(n): the conversion of a count into the output type.  It lives   *)
(* in crate::number, outside the files at hand; it returns the value       *)
(* unchanged when it fits and takes the fatal path (a panic naming the     *)
(* value and the width) when it does not.                                  *)
(***************************************************************************)
U_from(n, w) ==
    IF n <= MaxOf(w) THEN [tag |-> "ok", value |-> n, width |-> w]
    ELSE [tag |-> "panic", value |-> n, width |-> w]

(***************************************************************************)
(* levenshtein: the pieces of the DP branch.                               *)
(***************************************************************************)
\* faulty variant: a row of one cell too few, (0..len_b - 1).collect()
RowInitShort(n) == [k \in 1 .. n - 1 |-> k - 1]

\* (0..len_b).collect()
RowInit(n) == [k \in 1 .. n |-> k - 1]

\* faulty variant: swap whenever the lengths differ
NeedSwapNe(la, lb) == la # lb

\* the condition of the third branch: len_a < len_b
NeedSwap(la, lb) == la < lb

\* faulty variant: the substitution starts from tmp instead of pre
NewCellNoDiag(row, p, jj, ca, cb) ==
    min(row[jj + 2] + 1, min(row[jj + 1] + 1, row[jj + 2] + usize_from(ca # cb)))

\* faulty variant: no insertion, the cell to the left is never read
NewCellNoInsert(row, p, jj, ca, cb) ==
    min(row[jj + 2] + 1, p + usize_from(ca # cb))

\* the new value of cell jj + 1: deletion, insertion, match or substitution
NewCell(row, p, jj, ca, cb) ==
    min(row[jj + 2] + 1, min(row[jj + 1] + 1, p + usize_from(ca # cb)))

\* faulty variant: pre is read after the store, pre = cur[j + 1]
InnerBodyLatePre(row, p, jj, ca, cb) ==
    [cur |-> [row EXCEPT ![jj + 2] = NewCell(row, p, jj, ca, cb)],
     pre |-> NewCell(row, p, jj, ca, cb)]

\* faulty variant: pre keeps the value it had at the head of the row
InnerBodyStalePre(row, p, jj, ca, cb) ==
    [cur |-> [row EXCEPT ![jj + 2] = NewCell(row, p, jj, ca, cb)],
     pre |-> p]

\* one pass of the inner loop body: tmp, the store into cur[j + 1], pre = tmp
InnerBody(row, p, jj, ca, cb) ==
    [cur |-> [row EXCEPT ![jj + 2] = NewCell(row, p, jj, ca, cb)],
     pre |-> row[jj + 2]]

\* faulty variant: cur[0] = i
OuterHeadOffByOne(row, ii) ==
    [cur |-> [row EXCEPT ![1] = ii], pre |-> row[1]]

\* the head of the outer loop body: pre = cur[0]; cur[0] = i + 1
OuterHead(row, ii) ==
    [cur |-> [row EXCEPT ![1] = ii + 1], pre |-> row[1]]

\* the bounds check of an indexing cur[k]; a failed check panics
InBounds(row, k) == k + 1 \in DOMAIN row

IndexPanic == [tag |-> "index", value |-> 0, width |-> 0]

\* the loops hand back the row, or <<>> once an indexing has panicked
RECURSIVE InnerLoop(_, _, _, _, _)
InnerLoop(row, p, jj, ca, cbs) ==
    IF jj >= Len(cbs) THEN row
    ELSE IF ~(InBounds(row, jj) /\ InBounds(row, jj + 1)) THEN <<>>
    ELSE LET s == InnerBody(row, p, jj, ca, cbs[jj + 1])
         IN  InnerLoop(s.cur, s.pre, jj + 1, ca, cbs)

RECURSIVE OuterLoop(_, _, _, _)
OuterLoop(row, ii, cas, cbs) ==
    IF ii >= Len(cas) THEN row
    ELSE IF ~InBounds(row, 0) THEN <<>>
    ELSE LET h == OuterHead(row, ii)
         IN  OuterLoop(InnerLoop(h.cur, h.pre, 0, cas[ii + 1], cbs), ii + 1, cas, cbs)

\* the whole function, for output width w
RECURSIVE levenshtein(_, _, _)
levenshtein(x, y, w) ==
    LET la == count(x)
        lb == count(y)
    IN  IF la = 0 THEN U_from(lb, w)
        ELSE IF lb = 0 THEN U_from(la, w)
        ELSE IF NeedSwap(la, lb) THEN levenshtein(y, x, w)
        ELSE LET lb1 == lb + 1
                 row == OuterLoop(RowInit(lb1), 0, chars(x), chars(y))
             IN  IF InBounds(row, lb1 - 1) THEN U_from(row[(lb1 - 1) + 1], w)
                 ELSE IndexPanic

(***************************************************************************)
(* hamming: zip, filter, count, convert.                                   *)
(***************************************************************************)
\* faulty variant: pairs up to the longer length, the shorter side padded
zipPad(xs, ys) ==
    [k \in 1 .. (IF Len(xs) >= Len(ys) THEN Len(xs) ELSE Len(ys)) |->
        <<IF k <= Len(xs) THEN xs[k] ELSE 0, IF k <= Len(ys) THEN ys[k] ELSE 0>>]

\* x.chars().zip(y.chars())
zip(xs, ys) == [k \in 1 .. min(Len(xs), Len(ys)) |-> <<xs[k], ys[k]>>]

Differ(pr) == pr[1] # pr[2]

\* faulty variant: the count cast to the width, keeping its low bits
hammingWrap(x, y, w) ==
    [tag |-> "ok", width |-> w,
     value |-> Len(SelectSeq(zip(chars(x), chars(y)), Differ)) % (2 ^ w)]

hamming(x, y, w) == U_from(Len(SelectSeq(zip(chars(x), chars(y)), Differ)), w)

(***************************************************************************)
(* Inputs.                                                                 *)
(***************************************************************************)
CharSeqs(n) == UNION {[1 .. k -> Alphabet] : k \in 0 .. n}

\* every string of at most MaxLen characters over Alphabet, as a &str
Strs == {str(cs) : cs \in CharSeqs(MaxLen)}

\* the strings of the documentation tests
NAJIBEATSPEPPERS ==
    <<78, 65, 74, 73, 66, 69, 65, 84, 83, 80, 69, 80, 80, 69, 82, 83>>
NAJIBPEPPERSEATS ==
    <<78, 65, 74, 73, 66, 80, 69, 80, 80, 69, 82, 83, 69, 65, 84, 83>>
TOMEATSWHATFOODEATS ==
    <<84, 79, 77, 69, 65, 84, 83, 87, 72, 65, 84, 70, 79, 79, 68, 69, 65, 84, 83>>
FOODEATSWHATTOMEATS ==
    <<70, 79, 79, 68, 69, 65, 84, 83, 87, 72, 65, 84, 84, 79, 77, 69, 65, 84, 83>>

\* strings with characters of three and four bytes: U+20AC, 'a', U+1F600
WideTriples ==
    {<<str(<<8364, 97, 128512>>), str(<<97, 128512>>), str(<<8364>>)>>,
     <<str(<<128512, 8364>>), str(<<8364, 128512, 97>>), str(<<128512>>)>>}

DocPairs == {<<NAJIBEATSPEPPERS, NAJIBPEPPERSEATS>>,
             <<TOMEATSWHATFOODEATS, FOODEATSWHATTOMEATS>>}

NoCall == [fn |-> "none", r |-> [tag |-> "none", value |-> 0, width |-> 0]]
NoResult == [tag |-> "none", value |-> 0, width |-> 0]

(***************************************************************************)
(* The caller's view: one call of either function on the inputs.           *)
(***************************************************************************)
Idle ==
    /\ stack = <<>> /\ pc = "idle" /\ cur = <<>> /\ pre = 0
    /\ i = 0 /\ j = 0 /\ touched = {} /\ result = NoResult

InitCall ==
    /\ \/ a \in Strs /\ b \in Strs /\ c \in Strs
       \/ \E d \in DocPairs : a = d[1] /\ b = d[2] /\ c = d[1]
       \/ \E d \in WideTriples : a = d[1] /\ b = d[2] /\ c = d[3]
    /\ W \in Widths
    /\ out = NoCall
    /\ Idle

CallLevenshtein ==
    /\ out.fn = "none"
    /\ out' = [fn |-> "levenshtein", r |-> levenshtein(a, b, W)]
    /\ UNCHANGED <<a, b, c, W, stack, pc, cur, pre, i, j, touched, result>>

CallHamming ==
    /\ out.fn = "none"
    /\ out' = [fn |-> "hamming", r |-> hamming(a, b, W)]
    /\ UNCHANGED <<a, b, c, W, stack, pc, cur, pre, i, j, touched, result>>

NextCall == CallLevenshtein \/ CallHamming

SpecCall == InitCall /\ [][NextCall]_vars

(***************************************************************************)
(* levenshtein step by step: one invocation per stack frame, one action    *)
(* per branch of the function and per pass of its loops.                   *)
(***************************************************************************)
\* the arguments a and b of the running invocation
Top == stack[Len(stack)]

\* let (len_a, len_b) = (a.chars().count(), b.chars().count())
len_a == count(Top.a)
len_b == count(Top.b)

\* every variable the steps of levenshtein leave alone
Inputs == <<a, b, c, W>>

Init ==
    /\ \/ a \in Strs /\ b \in Strs
       \/ \E d \in WideTriples : a = d[1] /\ b = d[2]
    /\ c = <<>>
    /\ W \in Widths
    /\ out = NoCall
    /\ stack = <<[a |-> a, b |-> b]>>
    /\ pc = "entry"
    /\ cur = <<>> /\ pre = 0 /\ i = 0 /\ j = 0
    /\ touched = {}
    /\ result = NoResult

\* an indexing of cur out of its bounds: the invocation panics
Panics ==
    /\ result' = IndexPanic
    /\ pc' = "return"
    /\ UNCHANGED <<cur, pre, i, j>>

\* if len_a == 0 { U::from(len_b) }
EmptyA ==
    /\ pc = "entry"
    /\ len_a = 0
    /\ result' = U_from(len_b, W)
    /\ pc' = "return"
    /\ touched' = {}
    /\ UNCHANGED <<Inputs, out, stack, cur, pre, i, j>>

\* else if len_b == 0 { U::from(len_a) }
EmptyB ==
    /\ pc = "entry"
    /\ len_a # 0 /\ len_b = 0
    /\ result' = U_from(len_a, W)
    /\ pc' = "return"
    /\ touched' = {}
    /\ UNCHANGED <<Inputs, out, stack, cur, pre, i, j>>

\* else if len_a < len_b { levenshtein(b, a) }: a new frame, or the end of
\* the process when the stack is exhausted
Swap ==
    /\ pc = "entry"
    /\ len_a # 0 /\ len_b # 0
    /\ NeedSwap(len_a, len_b)
    /\ IF Len(stack) < MaxDepth
       THEN /\ stack' = Append(stack, [a |-> Top.b, b |-> Top.a])
            /\ pc' = "entry"
            /\ UNCHANGED result
       ELSE /\ pc' = "abort"
            /\ result' = [tag |-> "stack", value |-> 0, width |-> 0]
            /\ UNCHANGED stack
    /\ touched' = {}
    /\ UNCHANGED <<Inputs, out, cur, pre, i, j>>

\* else { let len_b = len_b + 1; let mut cur = (0..len_b).collect(); ... }
Alloc ==
    /\ pc = "entry"
    /\ len_a # 0 /\ len_b # 0
    /\ ~NeedSwap(len_a, len_b)
    /\ cur' = RowInit(len_b + 1)
    /\ i' = 0
    /\ pc' = "outer"
    /\ touched' = {}
    /\ UNCHANGED <<Inputs, out, stack, pre, j, result>>

\* for (i, ca) in a.chars().enumerate() { let mut pre = cur[0]; cur[0] = i + 1;
OuterStep ==
    /\ pc = "outer"
    /\ i < len_a
    /\ touched' = {0}
    /\ IF InBounds(cur, 0)
       THEN /\ cur' = OuterHead(cur, i).cur
            /\ pre' = OuterHead(cur, i).pre
            /\ j' = 0
            /\ pc' = "inner"
            /\ UNCHANGED <<i, result>>
       ELSE Panics
    /\ UNCHANGED <<Inputs, out, stack>>

\* for (j, cb) in b.chars().enumerate() { let tmp = cur[j + 1]; ...; pre = tmp; }
InnerStep ==
    /\ pc = "inner"
    /\ j < len_b
    /\ touched' = {j, j + 1}
    /\ IF InBounds(cur, j) /\ InBounds(cur, j + 1)
       THEN LET s == InnerBody(cur, pre, j, chars(Top.a)[i + 1], chars(Top.b)[j + 1])
            IN  /\ cur' = s.cur
                /\ pre' = s.pre
                /\ j' = j + 1
                /\ UNCHANGED <<pc, i, result>>
       ELSE Panics
    /\ UNCHANGED <<Inputs, out, stack>>

\* the inner loop is exhausted: on to the next character of a
InnerEnd ==
    /\ pc = "inner"
    /\ j >= len_b
    /\ i' = i + 1
    /\ pc' = "outer"
    /\ touched' = {}
    /\ UNCHANGED <<Inputs, out, stack, cur, pre, j, result>>

\* the outer loop is exhausted: U::from(cur[len_b - 1])
Finish ==
    /\ pc = "outer"
    /\ i >= len_a
    /\ touched' = {(len_b + 1) - 1}
    /\ IF InBounds(cur, (len_b + 1) - 1)
       THEN /\ result' = U_from(cur[((len_b + 1) - 1) + 1], W)
            /\ pc' = "return"
            /\ UNCHANGED <<cur, pre, i, j>>
       ELSE Panics
    /\ UNCHANGED <<Inputs, out, stack>>

\* the swapped invocation hands its outcome to its caller, which hands it on
Unwind ==
    /\ pc = "return"
    /\ Len(stack) > 1
    /\ stack' = SubSeq(stack, 1, Len(stack) - 1)
    /\ touched' = {}
    /\ UNCHANGED <<Inputs, out, pc, cur, pre, i, j, result>>

\* the outermost invocation hands its outcome to the caller
Return ==
    /\ pc = "return"
    /\ Len(stack) = 1
    /\ out' = [fn |-> "levenshtein", r |-> result]
    /\ pc' = "done"
    /\ touched' = {}
    /\ UNCHANGED <<Inputs, stack, cur, pre, i, j, result>>

Next ==
    \/ EmptyA \/ EmptyB \/ Swap \/ Alloc
    \/ OuterStep \/ InnerStep \/ InnerEnd \/ Finish
    \/ Unwind \/ Return

Spec == Init /\ [][Next]_vars

\* a call that can take a step takes it: nothing suspends the function
LiveSpec == Spec /\ WF_vars(Next)

(***************************************************************************)
(* Reference definitions the properties are stated against.                *)
(***************************************************************************)
\* the recursive definition of the Levenshtein distance of two sequences of
\* characters: the least number of insertions, deletions and substitutions
RECURSIVE RefLev(_, _)
RefLev(xs, ys) ==
    IF Len(xs) = 0 THEN Len(ys)
    ELSE IF Len(ys) = 0 THEN Len(xs)
    ELSE IF Head(xs) = Head(ys) THEN RefLev(Tail(xs), Tail(ys))
    ELSE 1 + min(RefLev(Tail(xs), ys),
                 min(RefLev(xs, Tail(ys)), RefLev(Tail(xs), Tail(ys))))

\* the length of a string in characters
NChars(s) == Len(chars(s))

\* the first n characters of a sequence
Prefix(xs, n) == SubSeq(xs, 1, n)

\* the number of positions, up to the shorter length, where two sequences differ
Mismatches(xs, ys) ==
    Cardinality({k \in 1 .. min(Len(xs), Len(ys)) : xs[k] # ys[k]})

Ok(n) == [tag |-> "ok", value |-> n, width |-> W]

IsDoc1 == a = NAJIBEATSPEPPERS /\ b = NAJIBPEPPERSEATS
IsDoc2 == a = TOMEATSWHATFOODEATS /\ b = FOODEATSWHATTOMEATS
Drawn == ~IsDoc1 /\ ~IsDoc2

\* the distance of the inputs: as documented for the two pairs of the
\* documentation tests, by the recursive definition for the other inputs
TrueLev == IF IsDoc1 THEN 8 ELSE IF IsDoc2 THEN 6 ELSE RefLev(chars(a), chars(b))

LevCalled == out.fn = "levenshtein"
HamCalled == out.fn = "hamming"

(***************************************************************************)
(* Properties of a call (specification SpecCall).                          *)
(***************************************************************************)
\* C1: whenever the distance fits the output width, levenshtein(a, b) returns
\* exactly the least number of single-character insertions, deletions and
\* substitutions turning a into b (the recursive reference definition); it
\* returns 8 and 6 for the two pairs of the documentation tests.
C1_LevenshteinIsEditDistance ==
    LevCalled =>
        /\ (Drawn /\ RefLev(chars(a), chars(b)) <= MaxOf(W))
               => out.r = Ok(RefLev(chars(a), chars(b)))
        /\ (IsDoc1 /\ 8 <= MaxOf(W)) => out.r = Ok(8)
        /\ (IsDoc2 /\ 6 <= MaxOf(W)) => out.r = Ok(6)

C1_Witness ==
    /\ LevCalled /\ Drawn
    /\ NChars(a) = 3 /\ NChars(b) = 2 /\ Len(a) > 3
    /\ out.r = Ok(2)

\* C2: hamming(x, y) returns the number of positions below the shorter length
\* where the characters differ, whatever the two lengths are (it fails only when
\* that number does not fit the width); the number is at most the shorter
\* length; appending characters to the input that is not the shorter one
\* leaves the result unchanged; it returns 10 and 13 for the documented pairs.
C2_HammingCountsUpToShorter ==
    HamCalled =>
        LET xs == chars(a)
            ys == chars(b)
            n == Mismatches(xs, ys)
        IN  /\ n <= MaxOf(W) => out.r = Ok(n)
            /\ out.r.value = n
            /\ n <= min(Len(xs), Len(ys))
            /\ Len(xs) >= Len(ys) => hamming(a \o c, b, W) = out.r
            /\ Len(ys) >= Len(xs) => hamming(a, b \o c, W) = out.r
            /\ (IsDoc1 /\ 10 <= MaxOf(W)) => out.r = Ok(10)
            /\ (IsDoc2 /\ 13 <= MaxOf(W)) => out.r = Ok(13)

C2_Witness ==
    /\ HamCalled /\ Drawn
    /\ NChars(a) = 3 /\ NChars(b) = 2 /\ NChars(c) > 0
    /\ out.r = Ok(2)
    /\ hamming(a \o c, b, W) = Ok(2)

\* C3: for every width a call ends in one of two ways: it returns the true
\* distance or count unchanged, or it takes the fatal overflow path; it takes
\* the fatal path exactly when the true value exceeds the largest value of the
\* width (the empty-input branches of levenshtein included), and never
\* returns the true value reduced modulo 2^W.
C3_ValueOrOverflow ==
    LET truth == IF LevCalled THEN TrueLev ELSE Mismatches(chars(a), chars(b))
    IN  (LevCalled \/ HamCalled) =>
            /\ out.r.tag \in {"ok", "panic"}
            /\ out.r.tag = "panic" <=> truth > MaxOf(W)
            /\ out.r.tag = "ok" => out.r = Ok(truth)
            /\ out.r.tag = "panic" => out.r.value = truth /\ out.r.width = W

C3_Witness ==
    /\ LevCalled
    /\ NChars(a) = 0 /\ NChars(b) = 3 /\ W = 1
    /\ out.r.tag = "panic"

\* C4: levenshtein(a, b) = levenshtein(b, a), with and without the swap.
C4_Symmetry ==
    LevCalled => out.r = levenshtein(b, a, W)

C4_Witness ==
    /\ LevCalled
    /\ NChars(a) = 2 /\ NChars(b) = 3
    /\ out.r = Ok(2) /\ levenshtein(b, a, W) = Ok(2)

\* C5: levenshtein(a, b) <= levenshtein(a, c) + levenshtein(c, b).
C5_Triangle ==
    LET ac == levenshtein(a, c, W)
        cb == levenshtein(c, b, W)
    IN  (LevCalled /\ out.r.tag = "ok" /\ ac.tag = "ok" /\ cb.tag = "ok")
            => out.r.value <= ac.value + cb.value

C5_Witness ==
    /\ LevCalled /\ W = 8
    /\ out.r = Ok(3)
    /\ levenshtein(a, c, W) = Ok(1) /\ levenshtein(c, b, W) = Ok(2)

\* C7: levenshtein(a, a) = 0 and hamming(a, a) = 0 for every a, the empty
\* string included.
C7_Identity ==
    (a = b /\ (LevCalled \/ HamCalled)) => out.r = Ok(0)

C7_Witness ==
    /\ LevCalled /\ a = b /\ NChars(a) = 3 /\ Len(a) > 3
    /\ out.r = Ok(0)

\* the run of levenshtein ends with the outcome the function has as a whole
StepAgreesWithCall ==
    pc = "done" => (LevCalled /\ out.r = levenshtein(a, b, W))

(***************************************************************************)
(* Properties of the run of levenshtein (specifications Spec, LiveSpec).   *)
(***************************************************************************)
\* C6: when one input is empty the result is the length in characters of the
\* other one (0 when both are empty), and it is produced without a DP row
\* being allocated or updated, and without a second invocation.
C6_EmptyInput ==
    (NChars(a) = 0 \/ NChars(b) = 0) =>
        LET n == IF NChars(a) = 0 THEN NChars(b) ELSE NChars(a)
        IN  /\ cur = <<>> /\ touched = {}
            /\ pc \notin {"outer", "inner", "abort"}
            /\ Len(stack) = 1
            /\ (pc = "done" /\ n <= MaxOf(W)) => out.r = Ok(n)
            /\ (pc = "done" /\ n > MaxOf(W)) => out.r.tag = "panic"

C6_Witness ==
    /\ pc = "done"
    /\ NChars(a) = 3 /\ Len(a) > 3 /\ NChars(b) = 0
    /\ out.r = Ok(3)

\* the invocations on the stack: at most the caller's and one swapped one,
\* which exists only for non-empty inputs with a shorter than b, holds them
\* swapped, longer first, and goes through the DP branch
SwapOnce ==
    /\ Len(stack) <= 2
    /\ pc # "abort"
    /\ Len(stack) = 2 =>
           /\ NChars(a) # 0 /\ NChars(b) # 0 /\ NChars(a) < NChars(b)
           /\ Top = [a |-> b, b |-> a]
           /\ NChars(Top.a) > NChars(Top.b)
           /\ pc \in {"entry", "outer", "inner", "return"}
           /\ pc = "return" => cur # <<>> /\ i = NChars(Top.a)
    /\ (pc \in {"outer", "inner"} /\ Len(stack) = 1) => NChars(a) >= NChars(b)

\* C8: every call of levenshtein terminates, and the self-invocation with
\* swapped arguments happens at most once per call: only for non-empty inputs
\* with a shorter than b, and the swapped call reaches the DP branch with its
\* first argument the longer one and never swaps again.
C8_TerminatesSwapOnce == [](SwapOnce) /\ <>(pc = "done")

C8_Witness ==
    /\ pc = "done" /\ NChars(a) = 2 /\ NChars(b) = 3
    /\ cur # <<>> /\ out.r.tag = "ok"

\* C9: in the main loop the DP row has min(length a, length b) + 1 cells, its
\* length never changes afterwards, and every cell read or written (cur[0],
\* cur[j], cur[j + 1], the final cur[len_b - 1]) lies within the row.
C9_RowBounds ==
    /\ (pc \in {"outer", "inner"} \/ cur # <<>>)
           => Len(cur) = min(NChars(a), NChars(b)) + 1
    /\ \A k \in touched : 0 <= k /\ k < Len(cur)
    /\ result.tag # "index"

C9_Witness ==
    /\ pc = "return" /\ Len(stack) = 2
    /\ NChars(a) = 2 /\ NChars(b) = 3
    /\ touched = {2} /\ Len(cur) = 3

\* C10: the row starts as 0, 1, ..., len_b; after the outer loop has processed
\* the first i characters of a, cell k holds the edit distance of the first i
\* characters of a and the first k of b; inside the inner loop at column j,
\* pre holds the previous row's cell j, cells 0..j hold the current row and
\* cells j+1.. still hold the previous row.
C10_RollingRow ==
    LET ca == chars(Top.a)
        cb == chars(Top.b)
    IN  /\ (pc = "outer" /\ i = 0) => cur = [k \in 1 .. Len(cb) + 1 |-> k - 1]
        /\ pc = "outer" =>
               \A k \in 0 .. Len(cb) :
                   cur[k + 1] = RefLev(Prefix(ca, i), Prefix(cb, k))
        /\ pc = "inner" =>
               /\ pre = RefLev(Prefix(ca, i), Prefix(cb, j))
               /\ \A k \in 0 .. j :
                      cur[k + 1] = RefLev(Prefix(ca, i + 1), Prefix(cb, k))
               /\ \A k \in j + 1 .. Len(cb) :
                      cur[k + 1] = RefLev(Prefix(ca, i), Prefix(cb, k))

C10_Witness ==
    /\ pc = "inner" /\ Len(stack) = 2
    /\ i = 2 /\ j = 1 /\ Len(cur) = 3
    /\ pre # cur[2] /\ cur[2] # cur[3]

====
